---- MODULE Spec2Model ----
(***************************************************************************)
(* Model of e3nn_jax/_graph_util.py: the relabelling helper                *)
(* _distinct_but_small, the segment sum index_add and the brute-force      *)
(* radius_graph.  Arrays are sequences (1-based) holding the program's     *)
(* 0-based index values; an optional argument is None (<<>>) or Some(v).   *)
(***************************************************************************)
EXTENDS Integers, Sequences, FiniteSets

VARIABLES fn, args, pc, indices, out_dim, unique, output, ret, err

vars == <<fn, args, pc, indices, out_dim, unique, output, ret, err>>

(***************************** bounds **************************************)
\* longest index / feature array, and largest point count
MaxN == 3
\* feature values are 1..MaxVal and -1
MaxVal == 1
\* points lie at x = 0..MaxCoord on the x axis, plus one point off the axis
MaxCoord == 2
\* largest fixed capacity `size` passed to radius_graph
MaxSize == 3

(***************************** optional values *****************************)
None == <<>>
Some(v) == <<v>>
Get(o) == o[1]

(***************************** array helpers *******************************)
Range(s) == {s[i] : i \in 1..Len(s)}

Min(S) == CHOOSE v \in S : \A w \in S : v <= w

SeqsUpTo(S, n) == UNION {[1..k -> S] : k \in 0..n}

\* Python/JAX integer indexing a[i] on an array of n rows: a negative index
\* counts from the end, an index still out of range is clamped.
PyIndex(i, n) ==
    LET j == IF i < 0 THEN i + n ELSE i
    IN  IF j < 0 THEN 0 ELSE IF j > n - 1 THEN n - 1 ELSE j

\* a[idx] for an integer index array idx
Take(a, idx) == [k \in 1..Len(idx) |-> a[PyIndex(idx[k], Len(a)) + 1]]

\* a[keep] for a boolean mask keep of the same length
BoolIndex(a, keep) ==
    LET pos == SelectSeq([k \in 1..Len(a) |-> k], LAMBDA k : keep[k])
    IN  [m \in 1..Len(pos) |-> a[pos[m]]]

(***************************** _distinct_but_small *************************)
RECURSIVE SortedSeq(_)
SortedSeq(S) ==
    IF S = {} THEN <<>>
    ELSE LET m == Min(S) IN <<m>> \o SortedSeq(S \ {m})

\* jnp.unique(x, size=size): the sorted distinct values, cut or padded to
\* `size` entries; the padding value is the smallest value of x.
jnp_unique(x, size) ==
    LET u == SortedSeq(Range(x))
    IN  [k \in 1..size |-> IF k <= Len(u) THEN u[k] ELSE u[1]]

\* mutant: the last matching position instead of the first
where_last(cond) ==
    LET hits == {k \in 1..Len(cond) : cond[k]}
    IN  IF hits = {} THEN 0 ELSE (CHOOSE k \in hits : \A h \in hits : h <= k) - 1

\* jnp.where(cond, size=1)[0][0]: the first position (0-based) where cond
\* holds, 0 when there is none.
where_first(cond) ==
    LET hits == {k \in 1..Len(cond) : cond[k]}
    IN  IF hits = {} THEN 0 ELSE Min(hits) - 1

\* the vmapped lambda of line 20 applied to every element of x
Lookup(x, uniq) ==
    [i \in 1..Len(x) |-> where_first([k \in 1..Len(uniq) |-> x[i] = uniq[k]])]

\* mutant: no relabelling at all
NoRelabel(x) == x

DistinctButSmall(x) == Lookup(x, jnp_unique(x, Len(x)))

(***************************** index_add ***********************************)
Zeros(n) == [b \in 1..n |-> 0]

\* bucket addressed by index i in an array of n rows under .at[...]: a
\* negative index counts from the end; -1 when the update is dropped as out
\* of range.
ScatterIndex(i, n) ==
    LET j == IF i < 0 THEN i + n ELSE i
    IN  IF j >= 0 /\ j < n THEN j ELSE -1

RECURSIVE ScatterFrom(_, _, _, _, _)
ScatterFrom(out, idx, x, i, accumulate) ==
    IF i > Len(idx) THEN out
    ELSE LET b == ScatterIndex(idx[i], Len(out))
             nxt == IF b = -1 THEN out
                    ELSE [out EXCEPT ![b + 1] = IF accumulate THEN @ + x[i] ELSE x[i]]
         IN  ScatterFrom(nxt, idx, x, i + 1, accumulate)

\* mutant: .at[idx].set(x), the last row written to a bucket wins
at_set(out, idx, x) == ScatterFrom(out, idx, x, 1, FALSE)

\* out.at[idx].add(x)
at_add(out, idx, x) == ScatterFrom(out, idx, x, 1, TRUE)

\* mutant: the second check (lines 59-60) is missing
MissingDimOnly(od, map_back) == od = None /\ ~map_back

\* the two configuration checks of lines 56-60
InvalidConfig(od, map_back) ==
    \/ od = None /\ ~map_back
    \/ od # None /\ map_back

(***************************** radius_graph ********************************)
\* squared Euclidean norm of p - q
Dist2(p, q) ==
    (p[1] - q[1]) * (p[1] - q[1]) + (p[2] - q[2]) * (p[2] - q[2])
        + (p[3] - q[3]) * (p[3] - q[3])

\* r: the n x n matrix of pairwise distances, kept as squared norms
Distances(pos) ==
    [i \in 1..Len(pos) |-> [j \in 1..Len(pos) |-> Dist2(pos[i], pos[j])]]

\* norm < r_max, for r_max = rmax2 / 2 and norm = sqrt(d2)
Below(d2, rmax2) == rmax2 > 0 /\ 4 * d2 < rmax2 * rmax2

\* mutant: the upper threshold is not strict
MaskCellLe(d2, rmax2, loop) ==
    /\ rmax2 > 0 /\ 4 * d2 <= rmax2 * rmax2
    /\ loop \/ d2 > 0

\* mutant: the r > 0 test is dropped
MaskCellNoZero(d2, rmax2, loop) == Below(d2, rmax2)

\* one cell of mask (lines 102-105)
MaskCell(d2, rmax2, loop) ==
    IF loop THEN Below(d2, rmax2) ELSE Below(d2, rmax2) /\ d2 > 0

Mask(r, rmax2, loop) ==
    [i \in 1..Len(r) |-> [j \in 1..Len(r) |-> MaskCell(r[i][j], rmax2, loop)]]

\* the (row, column) positions of an n x n matrix in row-major order
RowMajor(n) == [k \in 1..(n * n) |-> <<(k - 1) \div n, (k - 1) % n>>]

TruePairs(mask) ==
    SelectSeq(RowMajor(Len(mask)), LAMBDA p : mask[p[1] + 1][p[2] + 1])

\* mutant: the padding repeats index 0 instead of the fill value
WhereFillZero(mask, size) ==
    LET hits == TruePairs(mask)
    IN  IF size = None THEN hits
        ELSE [k \in 1..Get(size) |-> IF k <= Len(hits) THEN hits[k] ELSE <<0, 0>>]

\* jnp.where(mask, size=size, fill_value=-1), as a sequence of (src, dst)
Where(mask, size) ==
    LET hits == TruePairs(mask)
    IN  IF size = None THEN hits
        ELSE [k \in 1..Get(size) |-> IF k <= Len(hits) THEN hits[k] ELSE <<-1, -1>>]

Column(pairs, c) == [k \in 1..Len(pairs) |-> pairs[k][c]]

\* mutant: no batch filter
SameBatchAlways(batch, src, dst) == [k \in 1..Len(src) |-> TRUE]

\* mutant: an ordered comparison of the batch ids
SameBatchLe(batch, src, dst) ==
    [k \in 1..Len(src) |-> Take(batch, src)[k] <= Take(batch, dst)[k]]

\* batch[src] == batch[dst] (line 111)
SameBatch(batch, src, dst) ==
    [k \in 1..Len(src) |-> Take(batch, src)[k] = Take(batch, dst)[k]]

\* mutant: the batch filter runs on the mask, before the fixed-size extraction
RadiusGraphFilterFirst(pos, rmax2, batch, size, loop) ==
    LET mask == Mask(Distances(pos), rmax2, loop)
        m2 == IF batch = None THEN mask
              ELSE [i \in 1..Len(pos) |-> [j \in 1..Len(pos) |->
                        mask[i][j] /\ Get(batch)[i] = Get(batch)[j]]]
        pairs == Where(m2, size)
    IN  <<Column(pairs, 1), Column(pairs, 2)>>

\* radius_graph(pos, r_max, batch=batch, size=size, loop=loop)
RadiusGraphOf(pos, rmax2, batch, size, loop) ==
    LET r == Distances(pos)
        mask == Mask(r, rmax2, loop)
        pairs == Where(mask, size)
        src == Column(pairs, 1)
        dst == Column(pairs, 2)
    IN  IF batch = None THEN <<src, dst>>
        ELSE LET keep == SameBatch(Get(batch), src, dst)
             IN  <<BoolIndex(src, keep), BoolIndex(dst, keep)>>

(***************************** inputs **************************************)
Keys == -1..MaxN
Vals == {-1} \cup 1..MaxVal
Points == {<<x, 0, 0>> : x \in 0..MaxCoord} \cup {<<0, 1, 1>>}
\* r_max is 1 or 1.5, given as twice its value
RMax2s == {2, 3}
BatchIds == {0, 1}

Idle ==
    /\ indices = <<>> /\ out_dim = None /\ unique = None
    /\ output = None /\ ret = None /\ err = ""

InitRelabel ==
    /\ fn = "_distinct_but_small"
    /\ args \in [x : SeqsUpTo(Keys, MaxN + 1)]
    /\ pc = "unique"
    /\ Idle

InitIndexAdd ==
    /\ fn = "index_add"
    /\ args \in [indices : SeqsUpTo(Keys, MaxN), input : SeqsUpTo(Vals, MaxN),
                 out_dim : {None} \cup {Some(d) : d \in 1..(MaxN + 1)},
                 map_back : BOOLEAN]
    /\ pc = "shapes"
    /\ Idle

InitRadius ==
    /\ fn = "radius_graph"
    /\ \E n \in 1..MaxN :
         args \in [pos : [1..n -> Points], rmax2 : RMax2s,
                   batch : {None} \cup {Some(b) : b \in [1..n -> BatchIds]},
                   size : {None} \cup {Some(s) : s \in 0..MaxSize},
                   loop : BOOLEAN]
    /\ pc = "call"
    /\ Idle

(***************************** _distinct_but_small, stepwise ***************)
\* line 19
Unique ==
    /\ fn = "_distinct_but_small" /\ pc = "unique"
    /\ unique' = Some(jnp_unique(args.x, Len(args.x)))
    /\ pc' = "lookup"
    /\ UNCHANGED <<fn, args, indices, out_dim, output, ret, err>>

\* line 20
LookupAll ==
    /\ fn = "_distinct_but_small" /\ pc = "lookup"
    /\ ret' = Some(Lookup(args.x, Get(unique)))
    /\ pc' = "done"
    /\ UNCHANGED <<fn, args, indices, out_dim, unique, output, err>>

(***************************** index_add, stepwise *************************)
\* line 54
CheckShapes ==
    /\ fn = "index_add" /\ pc = "shapes"
    /\ IF Len(args.indices) = Len(args.input)
       THEN pc' = "config" /\ err' = err
       ELSE pc' = "raised" /\ err' = "AssertionError"
    /\ UNCHANGED <<fn, args, indices, out_dim, unique, output, ret>>

\* lines 56-64
CheckConfig ==
    /\ fn = "index_add" /\ pc = "config"
    /\ IF InvalidConfig(args.out_dim, args.map_back)
       THEN /\ pc' = "raised" /\ err' = "ValueError"
            /\ UNCHANGED <<indices, out_dim>>
       ELSE /\ pc' = "scatter" /\ err' = err
            /\ IF args.out_dim = None /\ args.map_back
               THEN /\ out_dim' = Some(Len(args.indices))
                    /\ indices' = DistinctButSmall(args.indices)
               ELSE /\ out_dim' = args.out_dim
                    /\ indices' = args.indices
    /\ UNCHANGED <<fn, args, unique, output, ret>>

\* line 70, and the return of line 77 when map_back is false
Scatter ==
    /\ fn = "index_add" /\ pc = "scatter"
    /\ LET o == at_add(Zeros(Get(out_dim)), indices, args.input)
       IN  /\ output' = Some(o)
           /\ IF args.map_back
              THEN pc' = "gather" /\ ret' = ret
              ELSE pc' = "done" /\ ret' = Some(o)
    /\ UNCHANGED <<fn, args, indices, out_dim, unique, err>>

\* lines 72-73 and the return of line 77
Gather ==
    /\ fn = "index_add" /\ pc = "gather"
    /\ output' = Some(Take(Get(output), indices))
    /\ ret' = output'
    /\ pc' = "done"
    /\ UNCHANGED <<fn, args, indices, out_dim, unique, err>>

(***************************** radius_graph ********************************)
RadiusGraph ==
    /\ fn = "radius_graph" /\ pc = "call"
    /\ ret' = Some(RadiusGraphOf(args.pos, args.rmax2, args.batch, args.size, args.loop))
    /\ pc' = "done"
    /\ UNCHANGED <<fn, args, indices, out_dim, unique, output, err>>

(***************************** specifications ******************************)
NextRelabel == Unique \/ LookupAll
SpecRelabel == InitRelabel /\ [][NextRelabel]_vars

NextIndexAdd == CheckShapes \/ CheckConfig \/ Scatter \/ Gather
SpecIndexAdd == InitIndexAdd /\ [][NextIndexAdd]_vars

NextRadius == RadiusGraph
SpecRadius == InitRadius /\ [][NextRadius]_vars

(***************************** claim vocabulary ****************************)
RECURSIVE SumWhere(_, _)
\* the sum of x[i] over the positions i of S
SumWhere(x, S) ==
    IF S = {} THEN 0
    ELSE LET i == CHOOSE k \in S : TRUE IN x[i] + SumWhere(x, S \ {i})

Rows(idx) == 1..Len(idx)

\* the returned edge list as a sequence of (src, dst) pairs
Edges == [k \in 1..Len(Get(ret)[1]) |-> <<Get(ret)[1][k], Get(ret)[2][k]>>]

NPoints == Len(args.pos)

\* distance(pos[i], pos[j]) < r_max and (loop or distance > 0), i and j 0-based
Qualifies(i, j) ==
    LET d2 == Dist2(args.pos[i + 1], args.pos[j + 1])
    IN  /\ 4 * d2 < args.rmax2 * args.rmax2
        /\ args.loop \/ d2 > 0

QualifyingSet == {p \in (0..(NPoints - 1)) \X (0..(NPoints - 1)) : Qualifies(p[1], p[2])}

\* the qualifying pairs in row-major order
QualifyingSeq ==
    LET codes == SortedSeq({p[1] * NPoints + p[2] : p \in QualifyingSet})
    IN  [k \in 1..Len(codes) |-> <<codes[k] \div NPoints, codes[k] % NPoints>>]

\* batch id that index i (possibly the sentinel -1) selects
BatchAt(i) == Get(args.batch)[PyIndex(i, NPoints) + 1]

(***************************** C1 ******************************************)
\* C1: index_add with map_back=False and an explicit out_dim, all indices in
\* [0, out_dim): the result has out_dim rows and row b is the sum of the
\* input rows whose index is b (zero when there is none).
C1_BucketSums ==
    (/\ pc = "done" /\ ~args.map_back /\ args.out_dim # None
     /\ \A i \in Rows(args.indices) :
            args.indices[i] >= 0 /\ args.indices[i] < Get(args.out_dim))
    => /\ Len(Get(ret)) = Get(args.out_dim)
       /\ \A b \in 0..(Get(args.out_dim) - 1) :
            Get(ret)[b + 1] =
                SumWhere(args.input, {i \in Rows(args.indices) : args.indices[i] = b})

C1_Witness ==
    /\ pc = "done" /\ ~args.map_back /\ args.out_dim = Some(4)
    /\ args.indices = <<0, 2, 2>> /\ args.input = <<-1, 1, 1>>
    /\ ret = Some(<<-1, 0, 2, 0>>)

(***************************** C2 ******************************************)
\* C2: index_add with map_back=True and out_dim unset, for arbitrary integer
\* keys: the result has N rows and row i is the sum of the input rows whose
\* key equals the key of row i.
C2_MapBackSums ==
    (pc = "done" /\ args.map_back /\ args.out_dim = None)
    => /\ Len(Get(ret)) = Len(args.indices)
       /\ \A i \in Rows(args.indices) :
            Get(ret)[i] =
                SumWhere(args.input,
                         {k \in Rows(args.indices) : args.indices[k] = args.indices[i]})

C2_Witness ==
    /\ pc = "done" /\ args.map_back /\ args.out_dim = None
    /\ args.indices = <<3, -1, 3>> /\ args.input = <<1, -1, 1>>
    /\ ret = Some(<<2, -1, 2>>)

(***************************** C3 ******************************************)
BadConfiguration ==
    \/ args.out_dim # None /\ args.map_back
    \/ args.out_dim = None /\ ~args.map_back

\* C3 as stated: every call with out_dim set and map_back=True, or with
\* out_dim unset and map_back=False, ends in the configuration error
\* (ValueError), with no output array built and nothing returned.
C3_AlwaysConfigurationError ==
    BadConfiguration
    => /\ pc \in {"shapes", "config", "raised"}
       /\ output = None /\ ret = None
       /\ pc = "raised" => err = "ValueError"

\* C3 amended: the same, for calls whose indices and input have the same
\* number of rows; otherwise the shape assertion fails first, also before any
\* output array is built.
C3_ConfigurationErrorAfterShapes ==
    BadConfiguration
    => /\ pc \in {"shapes", "config", "raised"}
       /\ output = None /\ ret = None
       /\ pc = "raised" =>
            err = IF Len(args.indices) = Len(args.input)
                  THEN "ValueError" ELSE "AssertionError"

C3_Witness ==
    /\ pc = "raised" /\ err = "ValueError"
    /\ args.out_dim # None /\ args.map_back
    /\ Len(args.indices) = 2
    /\ output = None /\ ret = None

(***************************** C4 ******************************************)
\* C4: _distinct_but_small returns y of the length of x with y[i] = y[j]
\* exactly when x[i] = x[j], and the values of y are exactly 0..k-1 for k the
\* number of distinct values of x.
C4_DenseRelabel ==
    pc = "done"
    => LET x == args.x
           y == Get(ret)
       IN  /\ Len(y) = Len(x)
           /\ \A i, j \in 1..Len(x) : (y[i] = y[j]) <=> (x[i] = x[j])
           /\ Range(y) = 0..(Cardinality(Range(x)) - 1)

C4_Witness ==
    /\ pc = "done" /\ args.x = <<3, -1, 3, 0>> /\ ret = Some(<<2, 0, 2, 1>>)

(***************************** C5 ******************************************)
\* C5: radius_graph with size and batch unset returns exactly the pairs
\* (i, j) with distance < r_max and (loop or distance > 0), each once, in
\* row-major order.
C5_ExactPairsRowMajor ==
    (pc = "done" /\ args.size = None /\ args.batch = None)
    => /\ Range(Edges) = QualifyingSet
       /\ \A k \in 1..(Len(Edges) - 1) :
            Edges[k][1] * NPoints + Edges[k][2]
                < Edges[k + 1][1] * NPoints + Edges[k + 1][2]

C5_Witness ==
    /\ pc = "done" /\ args.size = None /\ args.batch = None /\ ~args.loop
    /\ args.pos = << <<0, 0, 0>>, <<1, 0, 0>>, <<2, 0, 0>> >> /\ args.rmax2 = 3
    /\ ret = Some(<< <<0, 1, 1, 2>>, <<1, 0, 2, 1>> >>)

(***************************** C6 ******************************************)
\* C6: with a batch array, no returned pair joins two different batch ids.
C6_SameBatchOnly ==
    (pc = "done" /\ args.batch # None)
    => \A k \in 1..Len(Edges) : BatchAt(Edges[k][1]) = BatchAt(Edges[k][2])

C6_Witness ==
    /\ pc = "done" /\ args.batch = Some(<<0, 0, 1>>) /\ ~args.loop
    /\ args.pos = << <<0, 0, 0>>, <<1, 0, 0>>, <<2, 0, 0>> >> /\ args.rmax2 = 3
    /\ args.size = None
    /\ ret = Some(<< <<0, 1>>, <<1, 0>> >>)

(***************************** C7 ******************************************)
\* C7 as stated: with loop=False no position k of the returned arrays has
\* src[k] = dst[k].
C7_NoEqualEntries ==
    (pc = "done" /\ ~args.loop)
    => \A k \in 1..Len(Edges) : Edges[k][1] # Edges[k][2]

\* C7 amended: with loop=False the only positions with src[k] = dst[k] are
\* padding slots holding the sentinel -1 in both arrays, which occur only
\* when size is given; no point is paired with itself.
C7_NoSelfPairButPadding ==
    (pc = "done" /\ ~args.loop)
    => \A k \in 1..Len(Edges) :
            Edges[k][1] = Edges[k][2] => (Edges[k][1] = -1 /\ args.size # None)

C7_Witness ==
    /\ pc = "done" /\ ~args.loop /\ args.size = Some(3)
    /\ args.pos = << <<0, 0, 0>>, <<1, 0, 0>> >> /\ args.rmax2 = 3
    /\ args.batch = None
    /\ ret = Some(<< <<0, 1, -1>>, <<1, 0, -1>> >>)

(***************************** C8 ******************************************)
\* C8: with size unset, (i, j) is returned exactly when (j, i) is.
C8_Symmetric ==
    (pc = "done" /\ args.size = None)
    => \A p \in Range(Edges) : <<p[2], p[1]>> \in Range(Edges)

C8_Witness ==
    /\ pc = "done" /\ args.size = None /\ args.batch = Some(<<0, 1, 1>>) /\ ~args.loop
    /\ args.pos = << <<0, 0, 0>>, <<1, 0, 0>>, <<2, 0, 0>> >> /\ args.rmax2 = 3
    /\ ret = Some(<< <<1, 2>>, <<2, 1>> >>)

(***************************** C9 ******************************************)
\* C9: with size given and batch unset, src and dst have exactly size
\* entries: the first min(M, size) qualifying pairs in row-major order, then
\* -1 in both arrays; no error is raised when M > size.
C9_FixedSize ==
    (pc = "done" /\ args.size # None /\ args.batch = None)
    => /\ Len(Get(ret)[1]) = Get(args.size)
       /\ Len(Get(ret)[2]) = Get(args.size)
       /\ \A k \in 1..Get(args.size) :
            Edges[k] = IF k <= Len(QualifyingSeq) THEN QualifyingSeq[k] ELSE <<-1, -1>>
       /\ err = ""

C9_Witness ==
    /\ pc = "done" /\ args.size = Some(3) /\ args.batch = None /\ ~args.loop
    /\ args.pos = << <<0, 0, 0>>, <<1, 0, 0>>, <<2, 0, 0>> >> /\ args.rmax2 = 3
    /\ Len(QualifyingSeq) = 4
    /\ ret = Some(<< <<0, 1, 1>>, <<1, 0, 2>> >>)

(***************************** C10 *****************************************)
\* C10: with size and batch both given, the non-sentinel pairs returned are
\* those of the first size qualifying pairs (row-major, batch ignored) whose
\* endpoints share a batch id, in that order; nothing is back-filled, so the
\* result may be shorter than size.
C10_FilterAfterExtraction ==
    (pc = "done" /\ args.size # None /\ args.batch # None)
    => LET first == SubSeq(QualifyingSeq, 1,
                           IF Len(QualifyingSeq) < Get(args.size)
                           THEN Len(QualifyingSeq) ELSE Get(args.size))
       IN  /\ SelectSeq(Edges, LAMBDA p : p # <<-1, -1>>)
                = SelectSeq(first, LAMBDA p : BatchAt(p[1]) = BatchAt(p[2]))
           /\ Len(Edges) <= Get(args.size)

C10_Witness ==
    /\ pc = "done" /\ args.size = Some(2) /\ args.batch = Some(<<0, 1, 1>>) /\ ~args.loop
    /\ args.pos = << <<0, 0, 0>>, <<1, 0, 0>>, <<2, 0, 0>> >> /\ args.rmax2 = 3
    /\ <<1, 2>> \in Range(QualifyingSeq)
    /\ ret = Some(<< <<>>, <<>> >>)

====
